---- MODULE Spec2Model ----
(***************************************************************************)
(* Stark Assistant: the command pipeline (pipeline.py), its persisted      *)
(* conversational memory (core/memory.py), the safe executor               *)
(* (executor/executor.py), the classifier adapter (core/openai_nlu.py)     *)
(* and the command loop (main.py).                                         *)
(*                                                                         *)
(* Conventions.  A Python value that may be None is a sequence of length   *)
(* 0 (None) or 1 (the value).  A filename is a record of the parts pathlib *)
(* splits it into (dir, stem, suffix).  A text on which the code works     *)
(* character by character (a command) is a sequence of one-character       *)
(* strings.  A result text is a record naming its template and the values  *)
(* formatted into it; FirstWord gives the characters it starts with.       *)
(***************************************************************************)
EXTENDS Integers, Sequences, FiniteSets, TLC

VARIABLES
    mem,        \* data/memory.json: the persisted conversation state
    fs,         \* the files that exist: resolved path -> [content, readable, writable]
    cwdWritable,\* os.access(<working directory>, W_OK)
    session,    \* main.py's loop: "running", "exited" (input exit), "crashed" (uncaught exception),
                \* "resumed" (started again, no command read yet; SpecSession tells it from "running")
    ncmds,      \* commands forwarded to process_command so far
    last        \* observation of the last process_command call (what it was given, did and
                \* returned; origin_mem is the memory before the command that began the
                \* action now confirmed or executed); of the last execute call in SpecExec

vars == <<mem, fs, cwdWritable, session, ncmds, last>>

\* ------------------------------------------------------------------ bounds

MaxCommands == 2
MaxDeepCommands == 7
MaxExecCalls == 2
MaxSessionCommands == 3

\* ------------------------------------------------------------------ optional values

None == <<>>
Some(v) == <<v>>
Val(m) == m[1]

\* ------------------------------------------------------------------ characters

UpperChars == <<"A","B","C","D","E","F","G","H","I","J","K","L","M",
                "N","O","P","Q","R","S","T","U","V","W","X","Y","Z">>
LowerChars == <<"a","b","c","d","e","f","g","h","i","j","k","l","m",
                "n","o","p","q","r","s","t","u","v","w","x","y","z">>
Whitespace == {" ", "\t", "\n"}

\* str.lower() on one character
LowerChar(c) ==
    IF \E i \in 1..Len(UpperChars) : UpperChars[i] = c
    THEN LowerChars[CHOOSE i \in 1..Len(UpperChars) : UpperChars[i] = c]
    ELSE c

\* str.lower()
Lower(s) == [i \in 1..Len(s) |-> LowerChar(s[i])]

RECURSIVE LStrip(_)
LStrip(s) == IF s # <<>> /\ Head(s) \in Whitespace THEN LStrip(Tail(s)) ELSE s

RECURSIVE RStrip(_)
RStrip(s) ==
    IF s # <<>> /\ s[Len(s)] \in Whitespace THEN RStrip(SubSeq(s, 1, Len(s) - 1)) ELSE s

\* str.strip()
Strip(s) == RStrip(LStrip(s))

\* s.startswith(p)
StartsWith(s, p) == Len(s) >= Len(p) /\ SubSeq(s, 1, Len(p)) = p

\* p in s
Contains(s, p) == \E i \in 1..(Len(s) - Len(p) + 1) : SubSeq(s, i, i + Len(p) - 1) = p

\* The characters of the words and file contents the model uses.
Chars(w) ==
    CASE w = "Failed:"      -> <<"F","a","i","l","e","d",":">>
      [] w = "Failed"       -> <<"F","a","i","l","e","d">>
      [] w = "failed"       -> <<"f","a","i","l","e","d">>
      [] w = "Deleted"      -> <<"D","e","l","e","t","e","d">>
      [] w = "Successfully" -> <<"S","u","c","c","e","s","s","f","u","l","l","y">>
      [] w = "Collision"    -> <<"C","o","l","l","i","s","i","o","n">>
      [] w = "No"           -> <<"N","o">>
      [] w = "Unknown"      -> <<"U","n","k","n","o","w","n">>
      [] w = "Confirm"      -> <<"C","o","n","f","i","r","m">>
      [] w = "Operation"    -> <<"O","p","e","r","a","t","i","o","n">>
      [] w = "Please"       -> <<"P","l","e","a","s","e">>
      [] w = "Which"        -> <<"W","h","i","c","h">>
      [] w = "Sorry"        -> <<"S","o","r","r","y">>
      [] w = "Summary:"     -> <<"S","u","m","m","a","r","y",":">>
      [] w = "Authentication" -> <<"A","u","t","h","e","n","t","i","c","a","t","i","o","n">>
      [] w = "old"          -> <<"o","l","d">>
      [] w = "new"          -> <<"n","e","w">>
      [] w = "oldnew"       -> <<"o","l","d","n","e","w">>
      [] w = "hello"        -> <<"h","e","l","l","o">>
      [] w = "null"         -> <<"n","u","l","l">>
      [] w = "NULL"         -> <<"N","U","L","L">>
      [] w = "kept"         -> <<"k","e","p","t">>
      [] w = "a"            -> <<"a">>
      [] w = "a-ctx"        -> <<"a","-","c","t","x">>
      [] w = ""             -> <<>>
      [] OTHER              -> <<"?">>

\* ------------------------------------------------------------------ filenames

Name(d, st, su) == [dir |-> d, stem |-> st, suffix |-> su]

Cwd == "/cwd"
DataDir == "/app/data"
GhostHome == "~ghost"
EmptyName == Name("", "", "")

\* settings.DEFAULT_SUMMARY_FILE
DEFAULT_SUMMARY_FILE == Name(DataDir, "princess_bride", ".txt")

\* Python truthiness of an optional filename / text / flag
TruthyName(m) == m # None /\ Val(m) # EmptyName
TruthyText(m) == m # None /\ Val(m) # ""
TruthyFlag(m) == m # None /\ Val(m) = TRUE

\* ------------------------------------------------------------------ result texts

Msg(t, i, p, b) == [tmpl |-> t, intent |-> i, path |-> p, body |-> b]

\* The first whitespace-delimited word of a result text.
FirstWord(r) ==
    CASE r.tmpl \in {"invalid_filename", "not_found", "no_read_perm", "no_write_perm",
                     "no_dir_write_perm", "append_disallowed", "not_summarizable",
                     "summary_401"}                     -> Chars("Failed:")
      [] r.tmpl \in {"write_failed", "read_failed", "append_failed", "delete_failed",
                     "summary_read_failed"}              -> Chars("Failed")
      [] r.tmpl = "deleted"                              -> Chars("Deleted")
      [] r.tmpl \in {"wrote", "appended"}                -> Chars("Successfully")
      [] r.tmpl = "collision"                            -> Chars("Collision")
      [] r.tmpl \in {"no_content_write", "no_content_append"} -> Chars("No")
      [] r.tmpl = "unknown_intent"                       -> Chars("Unknown")
      [] r.tmpl = "confirm"                              -> Chars("Confirm")
      [] r.tmpl = "cancelled"                            -> Chars("Operation")
      [] r.tmpl = "reissue"                              -> Chars("Please")
      [] r.tmpl = "which_file"                           -> Chars("Which")
      [] r.tmpl = "not_understood"                       -> Chars("Sorry")
      [] r.tmpl = "auth_failed"                          -> Chars("Authentication")
      [] r.tmpl = "local_summary"                        -> Chars("Summary:")
      [] r.tmpl \in {"content", "answer", "api_summary"} -> Chars(r.body)
      [] OTHER                                           -> <<"?">>

FailedPrefix == <<"f","a","i","l","e","d">>

\* Faulty variant: the test without lower().
SignalsFailureCaseSensitive(r) == StartsWith(FirstWord(r), FailedPrefix)

\* result.lower().startswith("failed")
SignalsFailure(r) == StartsWith(Lower(FirstWord(r)), FailedPrefix)

\* ------------------------------------------------------------------ executor/executor.py

_SAFE_SUFFIX == ".safe"

File(c, r, w) == [content |-> c, readable |-> r, writable |-> w, isdir |-> FALSE, nul |-> FALSE]

\* A readable, writable file with a NUL byte in its first 1024 bytes.
Binary(c) == [content |-> c, readable |-> TRUE, writable |-> TRUE, isdir |-> FALSE, nul |-> TRUE]

\* A directory.
Directory == [content |-> "", readable |-> TRUE, writable |-> TRUE, isdir |-> TRUE, nul |-> FALSE]

Exists(files, p) == p \in DOMAIN files

\* Path(filename).expanduser().resolve(): a relative name lands in the working
\* directory; "~user" of a user with no home directory raises RuntimeError.
ResolveRaises(f) == f.dir = GhostHome
Resolve(f) == IF f.dir = "" THEN [f EXCEPT !.dir = Cwd] ELSE f

\* filename.lower() == "null"
IsNullToken(f) == f.dir = "" /\ f.suffix = "" /\ Lower(Chars(f.stem)) = Chars("null")

\* _validate_filename: "ok" with the resolved path, "invalid" (InvalidFilenameError),
\* or "raise" (an exception of another class, which execute does not catch).
_validate_filename(files, f) ==
    IF f = EmptyName \/ IsNullToken(f) THEN [status |-> "invalid", path |-> f]
    ELSE IF ResolveRaises(f) THEN [status |-> "raise", path |-> f]
    ELSE IF Exists(files, Resolve(f)) /\ files[Resolve(f)].isdir
         THEN [status |-> "invalid", path |-> Resolve(f)]
    ELSE [status |-> "ok", path |-> Resolve(f)]

\* _check_exists_and_perms(path, mode): "ok" or the failure template raised.
_check_exists_and_perms(files, dirw, p, mode) ==
    IF mode \in {"r", "a"} /\ ~Exists(files, p) THEN "not_found"
    ELSE IF mode = "r" /\ ~files[p].readable THEN "no_read_perm"
    ELSE IF mode = "a" /\ ~files[p].writable THEN "no_write_perm"
    ELSE IF mode = "w" /\ ~dirw THEN "no_dir_write_perm"
    ELSE "ok"

\* Faulty variant: the existing file itself is the target.
_safe_target_in_place(files, p, allow_overwrite) == [target |-> p, collided |-> FALSE]

\* _safe_target(path, allow_overwrite) -> (target, collided)
_safe_target(files, p, allow_overwrite) ==
    IF allow_overwrite THEN [target |-> p, collided |-> FALSE]
    ELSE IF Exists(files, p)
         THEN [target |-> Name(p.dir, p.stem \o p.suffix, _SAFE_SUFFIX), collided |-> TRUE]
    ELSE [target |-> p, collided |-> FALSE]

\* _is_binary(path)
_is_binary(files, p) == files[p].nul

\* The files after open(target, mode).write(content) succeeded.
Written(files, t, c) ==
    [q \in DOMAIN files \cup {t} |->
        IF q = t THEN (IF Exists(files, t) THEN [files[t] EXCEPT !.content = c]
                       ELSE File(c, TRUE, TRUE))
        ELSE files[q]]

\* Faulty variant: the file stays.
NotRemoved(files, p) == files

\* The files after os.remove(path) succeeded.
Removed(files, p) == [q \in DOMAIN files \ {p} |-> files[q]]

Ret(r, files) == [raised |-> FALSE, result |-> r, fs |-> files]

ExecWrite(files, dirw, p, content, allow_overwrite) ==
    IF content = None THEN Ret(Msg("no_content_write", "", EmptyName, ""), files)
    ELSE LET st == _safe_target(files, p, allow_overwrite)
             t == st.target
             chk == _check_exists_and_perms(files, dirw, t, "w")
         IN IF chk # "ok" THEN Ret(Msg(chk, "", t, ""), files)
            ELSE IF Exists(files, t) /\ (files[t].isdir \/ ~files[t].writable)
                 THEN Ret(Msg("write_failed", "", t, ""), files)
            ELSE Ret(Msg(IF st.collided THEN "collision" ELSE "wrote", "", t, ""),
                     Written(files, t, Val(content)))

ExecRead(files, dirw, p) ==
    LET chk == _check_exists_and_perms(files, dirw, p, "r")
    IN IF chk # "ok" THEN Ret(Msg(chk, "", p, ""), files)
       ELSE Ret(Msg("content", "", EmptyName, files[p].content), files)

ExecAppend(files, dirw, p, content, append_if_missing) ==
    IF content = None THEN Ret(Msg("no_content_append", "", EmptyName, ""), files)
    ELSE IF ~Exists(files, p) /\ ~append_if_missing
         THEN Ret(Msg("append_disallowed", "", p, ""), files)
    ELSE LET chk == _check_exists_and_perms(files, dirw, p,
                        IF Exists(files, p) THEN "a" ELSE "w")
         IN IF chk # "ok" THEN Ret(Msg(chk, "", p, ""), files)
            ELSE Ret(Msg("appended", "", p, ""),
                     Written(files, p,
                         IF Exists(files, p) THEN files[p].content \o Val(content)
                         ELSE Val(content)))

\* os.remove needs write permission on the directory; its OSError is caught by the
\* generic handler.
ExecDelete(files, dirw, p) ==
    LET chk == _check_exists_and_perms(files, dirw, p, "a")
    IN IF chk # "ok" THEN Ret(Msg(chk, "", p, ""), files)
       ELSE IF ~dirw THEN Ret(Msg("delete_failed", "", p, ""), files)
       ELSE Ret(Msg("deleted", "", p, ""), Removed(files, p))

ExecSummarize(files, dirw, p) ==
    LET chk == _check_exists_and_perms(files, dirw, p, "r")
    IN IF chk # "ok" THEN Ret(Msg(chk, "", p, ""), files)
       ELSE IF _is_binary(files, p) THEN Ret(Msg("not_summarizable", "", p, ""), files)
       ELSE Ret(Msg("content", "", EmptyName, files[p].content), files)

\* execute(intent, filename, content, allow_overwrite=..., append_if_missing=...):
\* [raised, result, fs].  intent, filename and content are optional values.
execute(files, dirw, intent, filename, content, allow_overwrite, append_if_missing) ==
    LET v == _validate_filename(files, IF TruthyName(filename) THEN Val(filename) ELSE EmptyName)
        p == v.path
    IN IF v.status = "raise"
       THEN [raised |-> TRUE, result |-> Msg("uncaught", "", p, ""), fs |-> files]
       ELSE IF v.status = "invalid" THEN Ret(Msg("invalid_filename", "", p, ""), files)
       ELSE IF intent = Some("WRITE") THEN ExecWrite(files, dirw, p, content, allow_overwrite)
       ELSE IF intent = Some("READ") THEN ExecRead(files, dirw, p)
       ELSE IF intent = Some("APPEND") THEN ExecAppend(files, dirw, p, content, append_if_missing)
       ELSE IF intent = Some("DELETE") THEN ExecDelete(files, dirw, p)
       ELSE IF intent = Some("SUMMARIZE") THEN ExecSummarize(files, dirw, p)
       ELSE Ret(Msg("unknown_intent", IF intent = None THEN "None" ELSE Val(intent),
                    EmptyName, ""), files)

\* ------------------------------------------------------------------ core/memory.py

_MAX_TURNS == 5
TrimLimit == 400

_default_state ==
    [turns |-> <<>>,
     last_intent |-> None, last_filename |-> None, last_content |-> None,
     last_answer |-> None,
     pending_intent |-> None, pending_filename |-> None, pending_content |-> None,
     pending_include_ctx |-> None]

\* Faulty variant: seq[:n], which drops the newest instead of the oldest.
FirstN(seq, n) == IF Len(seq) <= n THEN seq ELSE SubSeq(seq, 1, n)

\* seq[-n:]
LastN(seq, n) == IF Len(seq) <= n THEN seq ELSE SubSeq(seq, Len(seq) - n + 1, Len(seq))

\* Faulty variant: the remembered filename wins over the candidate.
resolve_filename_remembered_first(state, candidate) ==
    IF TruthyName(state.last_filename) THEN state.last_filename ELSE candidate

\* resolve_filename(state, candidate): candidate or state.get("last_filename")
resolve_filename(state, candidate) ==
    IF TruthyName(candidate) THEN candidate ELSE state.last_filename

\* _trim_text on a command (a sequence of characters)
_trim_text(text) ==
    IF Len(text) <= TrimLimit THEN text ELSE SubSeq(text, 1, TrimLimit) \o <<".", ".", ".">>

\* The namespace process_command records for a reply to a confirmation prompt:
\* SimpleNamespace(type="ACTION", intent=..., filename=...); getattr gives None for the rest.
Namespace(intent, filename) ==
    [type |-> Some("ACTION"), answer |-> None, intent |-> intent, filename |-> filename,
     content |-> None, detail |-> None, include_ctx_in_filename |-> None]

Turn(command, nlu_result, outcome) ==
    [command |-> _trim_text(command), type |-> nlu_result.type, intent |-> nlu_result.intent,
     filename |-> nlu_result.filename, content |-> nlu_result.content, outcome |-> outcome]

\* Python truthiness of an optional result text
TruthyOutcome(o) == o # None /\ ~(Val(o).tmpl = "answer" /\ Val(o).body = "")

\* record_turn(command, nlu_result, outcome) on the state it loads: the state it saves.
record_turn(state, command, nlu_result, outcome) ==
    [state EXCEPT
        !.turns = LastN(Append(state.turns, Turn(command, nlu_result, outcome)), _MAX_TURNS),
        !.last_intent = IF TruthyText(nlu_result.intent) THEN nlu_result.intent ELSE @,
        !.last_filename = IF TruthyName(nlu_result.filename) THEN nlu_result.filename ELSE @,
        !.last_content = IF TruthyText(nlu_result.content) THEN nlu_result.content ELSE @,
        !.last_answer = IF nlu_result.type = Some("ANSWER") /\ TruthyOutcome(outcome)
                        THEN outcome ELSE @]

\* build_context_hint(state): None without turns, else the digest of the window
\* and last_answer (a non-empty text).
build_context_hint(state) ==
    IF state.turns = <<>> THEN None
    ELSE Some([turns |-> LastN(state.turns, _MAX_TURNS), last_answer |-> state.last_answer])

\* ------------------------------------------------------------------ core/openai_nlu.py

NLUResult(t, ans, i, f, c, d, x) ==
    [type |-> t, answer |-> ans, intent |-> i, filename |-> f, content |-> c,
     detail |-> d, include_ctx_in_filename |-> x]

AnswerText(b) == Msg("answer", "", EmptyName, b)

\* check(command, context_hint) on the service's response: [raised, nlu].
\* response.kind: "api_401" and "api_error" (the request raised), "not_json"
\* (json.loads raised), "json_non_object" (valid JSON that is no object: data.get
\* raises AttributeError, which nothing catches), "json_object" (data is the object).
check(response) ==
    CASE response.kind = "api_401" ->
            [raised |-> FALSE,
             nlu |-> NLUResult(Some("ANSWER"), Some(Msg("auth_failed", "", EmptyName, "")),
                               None, None, None, None, None)]
      [] response.kind \in {"api_error", "not_json"} ->
            [raised |-> FALSE,
             nlu |-> NLUResult(Some("ANSWER"), Some(Msg("not_understood", "", EmptyName, "")),
                               None, None, None, None, None)]
      [] response.kind = "json_non_object" -> [raised |-> TRUE, nlu |-> response.data]
      [] OTHER -> [raised |-> FALSE, nlu |-> response.data]

\* ------------------------------------------------------------------ pipeline.py

Affirmatives == {<<"y","e","s">>, <<"y">>, <<"c","o","n","f","i","r","m">>, <<"o","k">>,
                 <<"o","k","a","y">>}
Negatives == {<<"n","o">>, <<"n">>, <<"c","a","n","c","e","l">>}

\* Faulty variant: a reply that only starts with an affirmative word is accepted.
AffirmativeByPrefix(answer) == \E a \in Affirmatives : StartsWith(answer, a)

\* answer in {"yes", "y", "confirm", "ok", "okay"}
AffirmativeReply(answer) == answer \in Affirmatives

\* answer in {"no", "n", "cancel"}
NegativeReply(answer) == answer \in Negatives

CTX_SNIPPET == "-ctx"

\* Faulty variant: the marker is inserted whenever a context hint exists.
_apply_ctx_to_filename_always(filename, include_ctx, context_hint) ==
    IF context_hint = None THEN filename
    ELSE [filename EXCEPT !.stem = filename.stem \o "-ctx"]

\* _apply_ctx_to_filename(filename, include_ctx, context_hint) on a filename
\* (not None): path.with_name(path.stem + "-ctx" + path.suffix)
_apply_ctx_to_filename(filename, include_ctx, context_hint) ==
    IF ~include_ctx \/ context_hint = None THEN filename
    ELSE [filename EXCEPT !.stem = filename.stem \o CTX_SNIPPET]

\* Faulty variant: DELETE is missing from the gated intents.
_need_permission_without_delete(intent) == intent \in {Some("WRITE"), Some("APPEND")}

\* Faulty variant: READ is gated too.
_need_permission_with_read(intent) ==
    intent \in {Some("WRITE"), Some("APPEND"), Some("DELETE"), Some("READ")}

\* _need_permission(intent)
_need_permission(intent) == intent \in {Some("WRITE"), Some("APPEND"), Some("DELETE")}

\* _summarize_text(text, detail) under the summarization service's condition:
\* "no_key" (no credential: local summary), "api_ok", "api_401", "api_error" (local summary)
_summarize_text(raw, detail, service) ==
    CASE service = "api_ok"  -> Msg("api_summary", "", EmptyName, "hello")
      [] service = "api_401" -> Msg("summary_401", "", EmptyName, "")
      [] OTHER               -> Msg("local_summary", "", EmptyName, raw.body)

Call(intent, filename, content) ==
    [intent |-> intent, filename |-> filename, content |-> content,
     allow_overwrite |-> FALSE, append_if_missing |-> FALSE]

Cleared(state) ==
    [state EXCEPT !.pending_intent = None, !.pending_filename = None,
                  !.pending_content = None, !.pending_include_ctx = None]

\* What one process_command call leaves behind: the saved memory, the files, and
\* what it did (branch taken, classifier / executor / summarizer invocations,
\* record_turn calls, the value returned or the exception raised).
Done(m, files, branch, nlu, classified, calls, summarized, recorded, outcome) ==
    [mem |-> m, fs |-> files, raised |-> FALSE, branch |-> branch, nlu |-> nlu,
     classified |-> classified, calls |-> calls, summarized |-> summarized,
     recorded |-> recorded, outcome |-> outcome]

Raised(m, files, branch, nlu, classified, calls) ==
    [mem |-> m, fs |-> files, raised |-> TRUE, branch |-> branch, nlu |-> nlu,
     classified |-> classified, calls |-> calls, summarized |-> FALSE,
     recorded |-> 0, outcome |-> None]

Pending(state) == TruthyText(state.pending_intent)

\* process_command when _handle_pending_permission returns a result
\* (state.pending_intent is set): lines 57-88 and 97-101.
HandlePending(state, files, dirw, command) ==
    LET pending_intent == state.pending_intent
        pending_filename == state.pending_filename
        answer == Lower(Strip(command))
        include_ctx == \/ Contains(answer, <<"c","t","x">>)
                       \/ Contains(answer, <<"c","o","n","t","e","x","t">>)
                       \/ TruthyFlag(state.pending_include_ctx)
    IN IF AffirmativeReply(answer)
       THEN LET context_hint == build_context_hint(state)
                filename == Some(_apply_ctx_to_filename(Val(pending_filename), include_ctx,
                                                        context_hint))
                call == Call(pending_intent, filename, state.pending_content)
                ex == execute(files, dirw, pending_intent, filename, state.pending_content,
                              FALSE, FALSE)
            IN IF ex.raised
               THEN Raised(state, files, "yes", None, FALSE, <<call>>)
               ELSE Done(record_turn(Cleared(state), command,
                                     Namespace(pending_intent, filename), Some(ex.result)),
                         ex.fs, "yes", None, FALSE, <<call>>, FALSE, 1, Some(ex.result))
       ELSE LET msg == IF NegativeReply(answer)
                       THEN Msg("cancelled", "", EmptyName, "")
                       ELSE Msg("reissue", "", EmptyName, "")
            IN Done(record_turn(Cleared(state), command,
                                Namespace(pending_intent, pending_filename), Some(msg)),
                    files, IF NegativeReply(answer) THEN "no" ELSE "unclear",
                    None, FALSE, <<>>, FALSE, 1, Some(msg))

\* process_command from the classification on (lines 106-173), nlu_result being
\* what check returned.
HandleClassified(state, files, dirw, command, nlu_result, service) ==
    LET nlu == Some(nlu_result)
        intent == nlu_result.intent
        filename == resolve_filename(state, nlu_result.filename)
        content == nlu_result.content
        include_ctx_flag == IF nlu_result.include_ctx_in_filename # None
                            THEN Val(nlu_result.include_ctx_in_filename) ELSE FALSE
    IN IF nlu_result.type = Some("ANSWER")
       THEN Done(record_turn(state, command, nlu_result, nlu_result.answer),
                 files, "answer", nlu, TRUE, <<>>, FALSE, 1, nlu_result.answer)
       ELSE IF nlu_result.type # Some("ACTION")
       THEN LET fallback == Some(Msg("not_understood", "", EmptyName, ""))
            IN Done(record_turn(state, command, nlu_result, fallback),
                    files, "unknown", nlu, TRUE, <<>>, FALSE, 1, fallback)
       ELSE IF ~TruthyName(filename) /\ ~TruthyName(state.last_filename)
       THEN LET msg == Some(Msg("which_file", "", EmptyName, ""))
            IN Done(record_turn(state, command, nlu_result, msg),
                    files, "which_file", nlu, TRUE, <<>>, FALSE, 1, msg)
       ELSE LET fname == IF TruthyName(filename) THEN filename ELSE state.last_filename
            IN IF intent = Some("SUMMARIZE")
               THEN LET target == IF TruthyName(fname) THEN fname
                                  ELSE Some(DEFAULT_SUMMARY_FILE)
                        call == Call(Some("SUMMARIZE"), target, None)
                        ex == execute(files, dirw, Some("SUMMARIZE"), target, None, FALSE, FALSE)
                    IN IF ex.raised
                       THEN Raised(state, files, "summarize", nlu, TRUE, <<call>>)
                       ELSE IF SignalsFailure(ex.result)
                       THEN Done(record_turn(state, command, nlu_result, Some(ex.result)),
                                 ex.fs, "summarize", nlu, TRUE, <<call>>, FALSE, 1,
                                 Some(ex.result))
                       ELSE LET summary == Some(_summarize_text(ex.result, nlu_result.detail,
                                                                service))
                            IN Done(record_turn(state, command, nlu_result, summary),
                                    ex.fs, "summarize", nlu, TRUE, <<call>>, TRUE, 1, summary)
               ELSE IF _need_permission(intent)
               THEN LET prompt == Some(Msg("confirm", Val(intent), Val(fname), ""))
                        stored == [state EXCEPT !.pending_intent = intent,
                                                !.pending_filename = fname,
                                                !.pending_content = content,
                                                !.pending_include_ctx = Some(include_ctx_flag)]
                    IN Done(record_turn(stored, command, nlu_result, prompt),
                            files, "gate", nlu, TRUE, <<>>, FALSE, 1, prompt)
               ELSE LET call == Call(intent, fname, content)
                        ex == execute(files, dirw, intent, fname, content, FALSE, FALSE)
                    IN IF ex.raised
                       THEN Raised(state, files, "execute", nlu, TRUE, <<call>>)
                       ELSE IF ~SignalsFailure(ex.result)
                       THEN Done(record_turn(state, command,
                                             [nlu_result EXCEPT !.filename = fname],
                                             Some(ex.result)),
                                 ex.fs, "execute", nlu, TRUE, <<call>>, FALSE, 1,
                                 Some(ex.result))
                       ELSE Done(state, ex.fs, "execute", nlu, TRUE, <<call>>, FALSE, 0,
                                 Some(ex.result))

\* process_command when nothing is pending (lines 103-173): classify, then act.
HandleIdle(state, files, dirw, command, response, service) ==
    LET c == check(response)
    IN IF c.raised THEN Raised(state, files, "classify", None, TRUE, <<>>)
       ELSE HandleClassified(state, files, dirw, command, c.nlu, service)

\* Faulty variant: a pending confirmation is not looked at.
process_command_ignoring_pending(state, files, dirw, command, response, service) ==
    HandleIdle(state, files, dirw, command, response, service)

\* process_command(command)
process_command(state, files, dirw, command, response, service) ==
    IF Pending(state) THEN HandlePending(state, files, dirw, command)
    ELSE HandleIdle(state, files, dirw, command, response, service)

\* ------------------------------------------------------------------ inputs

\* Command texts.
CmdTask == <<"d","o"," ","i","t">>
CmdYes == <<"y","e","s">>
CmdYesPadded == <<" ","Y","e","s","\n">>
CmdY == <<"y">>
CmdConfirm == <<"c","o","n","f","i","r","m">>
CmdOK == <<"O","K">>
CmdOkay == <<"o","k","a","y">>
CmdNo == <<"n","o">>
CmdN == <<"N"," ">>
CmdCancel == <<"C","a","n","c","e","l">>
CmdYesCtx == <<"y","e","s"," ","c","t","x">>
CmdLater == <<"l","a","t","e","r">>

ReplyTexts == {CmdYes, CmdYesPadded, CmdY, CmdConfirm, CmdOK, CmdOkay,
               CmdNo, CmdN, CmdCancel, CmdYesCtx, CmdLater}

\* Filenames a classification carries.
FileA == Name("", "a", ".txt")
FileGhost == Name(GhostHome, "a", ".txt")

Object(nlu) == [kind |-> "json_object", data |-> nlu]
ActionNLU(i, f, c, x) == NLUResult(Some("ACTION"), None, i, f, c, None, x)
NoData == NLUResult(None, None, None, None, None, None, None)

MutatingResponses ==
    {Object(ActionNLU(Some("DELETE"), Some(FileA), c, x)) :
        c \in {None, Some("new")}, x \in {None, Some(TRUE), Some(FALSE)}}
    \cup {Object(ActionNLU(Some(i), Some(FileA), c, None)) :
        i \in {"WRITE", "APPEND"}, c \in {None, Some("new")}}
    \cup {Object(ActionNLU(Some(i), Some(FileA), Some("new"), Some(TRUE))) :
        i \in {"WRITE", "APPEND"}}
    \cup {Object(ActionNLU(Some(i), None, Some("new"), None)) :
        i \in {"WRITE", "APPEND", "DELETE"}}
    \cup {Object(ActionNLU(Some("DELETE"), Some(FileGhost), None, None))}

ReadingResponses ==
    {Object(ActionNLU(Some(i), f, None, None)) :
        i \in {"READ", "SUMMARIZE"}, f \in {None, Some(FileA)}}
    \cup {Object(ActionNLU(Some("READ"), Some(EmptyName), None, None))}

OtherResponses ==
    {Object(NLUResult(Some("ANSWER"), Some(AnswerText("hello")), None, None, None, None, None)),
     Object(NLUResult(Some("ANSWER"), None, None, None, None, None, None)),
     Object(NLUResult(Some("CHAT"), None, None, None, None, None, None)),
     Object(ActionNLU(None, Some(FileA), None, None)),
     Object(ActionNLU(Some("RENAME"), Some(FileA), None, None)),
     [kind |-> "not_json", data |-> NoData],
     [kind |-> "api_401", data |-> NoData],
     [kind |-> "json_non_object", data |-> NoData]}

Input(c, r, sv) == [command |-> c, response |-> r, service |-> sv]

AnswerHello ==
    Object(NLUResult(Some("ANSWER"), Some(AnswerText("hello")), None, None, None, None, None))
NoResponse == [kind |-> "api_error", data |-> NoData]

\* What the user types while nothing is pending, and what the two services answer.
IdleInputs ==
    {Input(CmdTask, r, "no_key") :
        r \in MutatingResponses \cup ReadingResponses \cup OtherResponses}
    \cup {Input(CmdTask, Object(ActionNLU(Some("SUMMARIZE"), Some(FileA), None, None)), sv) :
        sv \in {"api_ok", "api_401", "api_error"}}
    \cup {Input(CmdYes, AnswerHello, "no_key")}

\* What the user types after a confirmation prompt (no service is called then).
ReplyInputs == {Input(c, NoResponse, "no_key") : c \in ReplyTexts \cup {CmdTask}}

DeepIdleInputs ==
    {Input(CmdTask, r, "no_key") :
        r \in {AnswerHello,
               Object(ActionNLU(Some("READ"), Some(FileA), None, None)),
               Object(ActionNLU(Some("SUMMARIZE"), None, None, None)),
               Object(ActionNLU(Some("DELETE"), Some(FileA), None, None))}}

DeepReplyInputs == {Input(c, NoResponse, "no_key") : c \in {CmdYes, CmdLater}}

\* The files and permissions a session may start with.
PathA == Resolve(FileA)
PathACtx == Resolve(Name("", "a-ctx", ".txt"))

InitialFiles ==
    {[files |-> <<>>, dirw |-> TRUE],
     [files |-> (PathA :> File("old", TRUE, TRUE)), dirw |-> TRUE],
     [files |-> (PathA :> File("old", TRUE, FALSE)), dirw |-> TRUE],
     [files |-> (PathA :> File("old", TRUE, TRUE)), dirw |-> FALSE],
     [files |-> (PathA :> File("Failed", TRUE, TRUE)), dirw |-> TRUE],
     [files |-> (PathA :> File("old", FALSE, TRUE)), dirw |-> TRUE],
     [files |-> (PathA :> Binary("old")), dirw |-> TRUE],
     [files |-> (PathA :> File("old", TRUE, TRUE)) @@ (PathACtx :> File("old", TRUE, TRUE)),
      dirw |-> TRUE]}

\* ------------------------------------------------------------------ the state machine

NoObservation(m, files) ==
    [command |-> <<>>, branch |-> "none", nlu |-> None, classified |-> FALSE, calls |-> <<>>,
     summarized |-> FALSE, recorded |-> 0, raised |-> FALSE, outcome |-> None,
     pre_mem |-> m, pre_fs |-> files, origin_mem |-> m, response |-> "none",
     resumed |-> FALSE]

Init ==
    /\ mem = _default_state
    /\ \E e \in InitialFiles : fs = e.files /\ cwdWritable = e.dirw
    /\ session = "running"
    /\ ncmds = 0
    /\ last = NoObservation(_default_state, fs)

\* main.py: one turn of the loop with an input other than "exit".  An exception
\* process_command raises is caught nowhere and ends the program.
Step(in, bound) ==
    /\ session \in {"running", "resumed"}
    /\ ncmds < bound
    /\ LET r == process_command(mem, fs, cwdWritable, in.command, in.response, in.service)
       IN /\ mem' = r.mem
          /\ fs' = r.fs
          /\ session' = IF r.raised THEN "crashed" ELSE "running"
          /\ last' = [command |-> in.command, branch |-> r.branch, nlu |-> r.nlu,
                      classified |-> r.classified, calls |-> r.calls,
                      summarized |-> r.summarized, recorded |-> r.recorded,
                      raised |-> r.raised, outcome |-> r.outcome,
                      pre_mem |-> mem, pre_fs |-> fs,
                      origin_mem |-> IF Pending(mem) THEN last.origin_mem ELSE mem,
                      response |-> in.response.kind,
                      resumed |-> session = "resumed"]
    /\ ncmds' = ncmds + 1
    /\ UNCHANGED cwdWritable

\* A command typed while a confirmation is pending.
Reply(in, bound) == Pending(mem) /\ Step(in, bound)

\* A command typed while nothing is pending.
Command(in, bound) == ~Pending(mem) /\ Step(in, bound)

\* main.py: the input "exit" ends the loop; memory.json and the files stay.
Exit ==
    /\ session \in {"running", "resumed"}
    /\ session' = "exited"
    /\ UNCHANGED <<mem, fs, cwdWritable, ncmds, last>>

\* The program is started again.
Restart ==
    /\ session \in {"exited", "crashed"}
    /\ session' = "running"
    /\ UNCHANGED <<mem, fs, cwdWritable, ncmds, last>>

Next ==
    \/ \E in \in ReplyInputs : Reply(in, MaxCommands)
    \/ \E in \in IdleInputs : Command(in, MaxCommands)
    \/ Exit
    \/ Restart

Spec == Init /\ [][Next]_vars

\* Long sessions over few inputs: the turn window fills and evicts.
NextDeep ==
    \/ \E in \in DeepReplyInputs : Reply(in, MaxDeepCommands)
    \/ \E in \in DeepIdleInputs : Command(in, MaxDeepCommands)
    \/ Exit
    \/ Restart

InitDeep == Init /\ fs = (PathA :> File("old", TRUE, TRUE)) /\ cwdWritable

SpecDeep == InitDeep /\ [][NextDeep]_vars

\* ------------------------------------------------------------------ sessions

\* The program is started again; the next command is the first of the new session.
Resume ==
    /\ session \in {"exited", "crashed"}
    /\ session' = "resumed"
    /\ UNCHANGED <<mem, fs, cwdWritable, ncmds, last>>

SessionIdleInputs ==
    {Input(CmdTask, r, "no_key") :
        r \in {AnswerHello,
               Object(ActionNLU(Some("READ"), Some(FileA), None, None)),
               Object(ActionNLU(Some("DELETE"), Some(FileA), None, None)),
               Object(ActionNLU(Some("DELETE"), Some(FileGhost), None, None)),
               Object(ActionNLU(Some("WRITE"), Some(FileA), Some("new"), Some(TRUE))),
               Object(ActionNLU(Some("APPEND"), Some(FileA), Some("new"), Some(FALSE)))}}

\* Sessions that end and start again between commands.
NextSession ==
    \/ \E in \in ReplyInputs : Reply(in, MaxSessionCommands)
    \/ \E in \in SessionIdleInputs : Command(in, MaxSessionCommands)
    \/ Exit
    \/ Resume

SpecSession == Init /\ [][NextSession]_vars

\* ------------------------------------------------------------------ the executor alone

\* Filenames handed to execute.
FileB == Name("", "b", ".txt")
FileASafe == Name("", "a.txt", ".safe")
FileD == Name("", "d", "")
FileNull == Name("", "NULL", "")
ExecNames == {None, Some(EmptyName), Some(FileNull), Some(FileA), Some(FileB),
              Some(FileASafe), Some(FileD), Some(FileGhost)}
ExecContents == {None, Some(""), Some("new")}

ExecCall(i, f, c, ow, aim) ==
    [intent |-> i, filename |-> f, content |-> c, allow_overwrite |-> ow,
     append_if_missing |-> aim]

\* The calls of execute: every intent (an unrecognized one and None included) on
\* every filename, with the keyword arguments that matter to the intent.
ExecCalls ==
    {ExecCall(Some("WRITE"), f, c, ow, FALSE) :
        f \in ExecNames, c \in ExecContents, ow \in BOOLEAN}
    \cup {ExecCall(Some("APPEND"), f, c, FALSE, aim) :
        f \in ExecNames, c \in ExecContents, aim \in BOOLEAN}
    \cup {ExecCall(i, f, None, FALSE, FALSE) :
        i \in {Some("READ"), Some("DELETE"), Some("SUMMARIZE"), Some("RENAME"), None},
        f \in ExecNames}

PathASafe == Resolve(FileASafe)
PathD == Resolve(FileD)

\* The files and permissions the executor may find.
ExecInitialFiles ==
    {[files |-> <<>>, dirw |-> TRUE],
     [files |-> (PathA :> File("old", TRUE, TRUE)) @@ (PathD :> Directory), dirw |-> TRUE],
     [files |-> (PathA :> File("old", TRUE, TRUE)), dirw |-> FALSE],
     [files |-> (PathA :> File("old", TRUE, FALSE)), dirw |-> TRUE],
     [files |-> (PathA :> File("old", FALSE, TRUE)), dirw |-> TRUE],
     [files |-> (PathA :> Binary("old")), dirw |-> TRUE],
     [files |-> (PathA :> File("old", TRUE, TRUE)) @@ (PathASafe :> File("kept", TRUE, TRUE)),
      dirw |-> TRUE],
     [files |-> (PathA :> File("old", TRUE, TRUE)) @@ (PathASafe :> File("kept", TRUE, FALSE)),
      dirw |-> TRUE]}

NoCall == ExecCall(None, None, None, FALSE, FALSE)

InitExec ==
    /\ mem = _default_state
    /\ \E e \in ExecInitialFiles : fs = e.files /\ cwdWritable = e.dirw
    /\ session = "running"
    /\ ncmds = 0
    /\ last = [called |-> FALSE, call |-> NoCall, raised |-> FALSE,
               result |-> Msg("none", "", EmptyName, ""), pre_fs |-> fs]

\* One call of execute on the files as they are.
Execute(call) ==
    /\ ncmds < MaxExecCalls
    /\ session = "running"
    /\ LET ex == execute(fs, cwdWritable, call.intent, call.filename, call.content,
                         call.allow_overwrite, call.append_if_missing)
       IN /\ fs' = ex.fs
          /\ session' = IF ex.raised THEN "crashed" ELSE "running"
          /\ last' = [called |-> TRUE, call |-> call, raised |-> ex.raised,
                      result |-> ex.result, pre_fs |-> fs]
    /\ ncmds' = ncmds + 1
    /\ UNCHANGED <<mem, cwdWritable>>

NextExec == \E call \in ExecCalls : Execute(call)

SpecExec == InitExec /\ [][NextExec]_vars

\* ------------------------------------------------------------------ properties

Min(a, b) == IF a <= b THEN a ELSE b

\* The last process_command call, as the claims speak of it.
Processed == last.branch # "none"
WasPending == Processed /\ last.pre_mem.pending_intent # None
WasIdle == Processed /\ last.pre_mem.pending_intent = None
Classification == Val(last.nlu)
IdleAction == WasIdle /\ last.nlu # None /\ Classification.type = Some("ACTION")
MutatingIntents == {Some("WRITE"), Some("APPEND"), Some("DELETE")}
NonEmptyName(m) == m # None /\ Val(m) # EmptyName
\* The filename the claims call resolved: the classification's, else the remembered one.
ClaimedFilename ==
    IF NonEmptyName(Classification.filename) THEN Classification.filename
    ELSE last.pre_mem.last_filename
Resolvable == NonEmptyName(ClaimedFilename)
PendingFields(m) ==
    <<m.pending_intent, m.pending_filename, m.pending_content, m.pending_include_ctx>>
NoPendingField(m) == PendingFields(m) = <<None, None, None, None>>
ReplyText == Lower(Strip(last.command))
YesWords == {<<"y","e","s">>, <<"y">>, <<"c","o","n","f","i","r","m">>, <<"o","k">>,
             <<"o","k","a","y">>}
NoWords == {<<"n","o">>, <<"n">>, <<"c","a","n","c","e","l">>}
ConfirmPrompt(intent, filename) == Some(Msg("confirm", Val(intent), Val(filename), ""))

\* C1: a command classified in IDLE as a WRITE, APPEND or DELETE action with a
\* resolvable filename does not invoke the executor and changes no file; it stores
\* and persists the four pending fields and returns the confirmation prompt naming
\* the intent and the resolved filename.
C1_MutatingActionIsGated ==
    (IdleAction /\ Classification.intent \in MutatingIntents /\ Resolvable)
    => /\ ~last.raised
       /\ last.calls = <<>>
       /\ fs = last.pre_fs
       /\ mem.pending_intent = Classification.intent
       /\ mem.pending_filename = ClaimedFilename
       /\ mem.pending_content = Classification.content
       /\ mem.pending_include_ctx = Some(Classification.include_ctx_in_filename = Some(TRUE))
       /\ last.outcome = ConfirmPrompt(Classification.intent, ClaimedFilename)

C1_Witness ==
    /\ IdleAction /\ Classification.intent = Some("DELETE")
    /\ Classification.filename = None /\ Resolvable
    /\ Resolve(Val(ClaimedFilename)) \in DOMAIN fs
    /\ mem.pending_intent = Some("DELETE")

\* C2: a reply to a confirmation prompt that, trimmed and lower-cased, is not one of
\* yes, y, confirm, ok, okay invokes neither the executor nor the classifier and
\* leaves every file as it was; the outcome is the cancellation message for no, n,
\* cancel and the request to reissue for any other text.
C2_NonAffirmativeReplyTouchesNothing ==
    (WasPending /\ ReplyText \notin YesWords)
    => /\ last.calls = <<>>
       /\ ~last.classified
       /\ fs = last.pre_fs
       /\ last.outcome = Some(IF ReplyText \in NoWords
                              THEN Msg("cancelled", "", EmptyName, "")
                              ELSE Msg("reissue", "", EmptyName, ""))

C2_Witness ==
    /\ WasPending /\ last.command = CmdN
    /\ last.pre_mem.pending_intent = Some("DELETE")
    /\ Resolve(Val(last.pre_mem.pending_filename)) \in DOMAIN fs
    /\ last.outcome = Some(Msg("cancelled", "", EmptyName, ""))

\* The reply "yes" to the prompt for a DELETE of an existing, writable file.
C3_PromptedFile == Resolve(Val(last.pre_mem.pending_filename))
C3_Case ==
    /\ WasPending /\ last.command = CmdYes
    /\ last.pre_mem.pending_intent = Some("DELETE")
    /\ ~ResolveRaises(Val(last.pre_mem.pending_filename))
    /\ C3_PromptedFile \in DOMAIN last.pre_fs
    /\ last.pre_fs[C3_PromptedFile].writable
    /\ cwdWritable

\* C3: a DELETE of an existing, writable file, prompted for and answered "yes":
\* afterwards the file named in the prompt no longer exists and the pending group is
\* cleared, whatever content and include_ctx_in_filename the classification carried.
C3_ConfirmedDeleteRemovesPromptedFile ==
    C3_Case => (C3_PromptedFile \notin DOMAIN fs /\ NoPendingField(mem))

\* C4: after a command accepted while a confirmation is pending, the persisted
\* pending group is cleared, for every command text and every executor outcome.
C4_ReplyAlwaysClearsPending == WasPending => NoPendingField(mem)

\* C5: in every persisted state the four pending fields are all present or all absent.
C5_PendingGroupAllOrNothing ==
    \/ \A i \in 1..4 : PendingFields(mem)[i] = None
    \/ \A i \in 1..4 : PendingFields(mem)[i] # None

\* C6: the turn window never exceeds 5 entries, and a record_turn call leaves the
\* previous turns with the new turn appended last, cut to the 5 newest (the oldest
\* leave first).
C6_TurnWindow ==
    LET old == last.pre_mem.turns
        new == mem.turns
        kept == Len(new) - 1
    IN /\ Len(new) <= 5
       /\ last.recorded = 0 => new = old
       /\ last.recorded = 1 =>
            /\ Len(new) = Min(Len(old) + 1, 5)
            /\ new[Len(new)].command = last.command
            /\ new[Len(new)].outcome = last.outcome
            /\ \A i \in 1..kept : new[i] = old[Len(old) - kept + i]

C6_Witness ==
    /\ last.recorded = 1 /\ Len(last.pre_mem.turns) = 5
    /\ last.pre_mem.turns[1] # last.pre_mem.turns[2]
    /\ mem.turns[1] = last.pre_mem.turns[2]

\* C7: in IDLE a READ or SUMMARIZE action with a resolvable filename invokes the
\* executor within that command, sets no pending field and returns no confirmation
\* prompt.
C7_ReadingActionsBypassGate ==
    (IdleAction /\ Classification.intent \in {Some("READ"), Some("SUMMARIZE")} /\ Resolvable)
    => /\ Len(last.calls) = 1
       /\ last.calls[1].intent = Classification.intent
       /\ NoPendingField(mem)
       /\ (last.outcome # None => Val(last.outcome).tmpl # "confirm")

C7_Witness ==
    /\ IdleAction /\ Classification.intent = Some("SUMMARIZE") /\ Resolvable
    /\ last.summarized

\* C8: an Action processed in IDLE uses the classification's filename when it is
\* non-empty and last_filename otherwise; when both are absent and the intent is not
\* SUMMARIZE it returns the "which file" clarification, calls no executor and sets no
\* pending field.
C8_FilenameResolution ==
    IdleAction =>
       /\ Resolvable =>
            /\ last.calls # <<>> \/ mem.pending_intent # None
            /\ last.calls # <<>> => last.calls[1].filename = ClaimedFilename
            /\ mem.pending_intent # None => mem.pending_filename = ClaimedFilename
       /\ (~Resolvable /\ Classification.intent # Some("SUMMARIZE")) =>
            /\ last.outcome = Some(Msg("which_file", "", EmptyName, ""))
            /\ last.calls = <<>>
            /\ NoPendingField(mem)

C8_Witness ==
    /\ IdleAction /\ Classification.filename = None /\ Resolvable
    /\ last.calls # <<>> /\ last.calls[1].filename = last.pre_mem.last_filename

C8_WitnessWhichFile ==
    /\ IdleAction /\ ~Resolvable /\ Classification.intent = Some("DELETE")
    /\ last.outcome = Some(Msg("which_file", "", EmptyName, ""))

\* C9: a SUMMARIZE action without a filename, when no last_filename is remembered,
\* reads the configured default document and does not ask which file to use.
C9_SummarizeFallsBackToDefaultDocument ==
    (IdleAction /\ Classification.intent = Some("SUMMARIZE") /\ ~Resolvable)
    => /\ last.calls # <<>>
       /\ last.calls[1].filename = Some(DEFAULT_SUMMARY_FILE)
       /\ last.outcome # Some(Msg("which_file", "", EmptyName, ""))

\* The executor was reached by a non-summarize action and its result signals failure.
FailedExecution ==
    /\ Processed /\ ~last.raised /\ last.calls # <<>>
    /\ last.calls[1].intent # Some("SUMMARIZE")
    /\ last.outcome # None
    /\ StartsWith(Lower(FirstWord(Val(last.outcome))), <<"f","a","i","l","e","d">>)
AppendedFailureTurn ==
    /\ last.recorded = 1
    /\ Len(mem.turns) = Min(Len(last.pre_mem.turns) + 1, 5)
    /\ mem.turns[Len(mem.turns)].outcome = last.outcome
    /\ mem.turns[Len(mem.turns)].command = last.command

\* C10 (as claimed): every non-summarize action that reaches the executor and fails
\* appends exactly one turn carrying the failure, executed directly or after a
\* confirmation round.
C10_FailedActionIsRecorded == FailedExecution => AppendedFailureTurn

\* C10 (amended): a WRITE, APPEND or DELETE that fails after its confirmation round
\* appends exactly one turn carrying the failure; an action executed directly
\* (READ) that fails appends no turn and leaves the turn window as it was.
C10_FailedActionRecordedOnlyAfterConfirmation ==
    /\ (FailedExecution /\ WasPending) => AppendedFailureTurn
    /\ (FailedExecution /\ WasIdle) => (last.recorded = 0 /\ mem.turns = last.pre_mem.turns)

C10_Witness ==
    /\ FailedExecution /\ WasPending
    /\ last.pre_mem.pending_intent = Some("APPEND")
    /\ AppendedFailureTurn

C10_WitnessDirect ==
    /\ FailedExecution /\ WasIdle /\ Classification.intent = Some("READ")
    /\ mem.turns = last.pre_mem.turns

\* C11: after a non-summarize action whose result signals failure, executed directly
\* or after a prompt-and-confirm round, last_filename and last_content have the
\* values they had before the action's command was issued.
C11_FailedActionKeepsLastFields ==
    FailedExecution
    => /\ mem.last_filename = last.origin_mem.last_filename
       /\ mem.last_content = last.origin_mem.last_content

\* ------------------------------------------------------------------ properties of execute

\* The last execute call, as the claims speak of it.
CalledWith(intent) == last.called /\ last.call.intent = Some(intent)
NamesAPath ==
    /\ last.call.filename # None
    /\ Val(last.call.filename) \notin {EmptyName, FileNull}
    /\ Val(last.call.filename).dir # GhostHome
TargetPath == Resolve(Val(last.call.filename))
ExistingFile(files, p) == p \in DOMAIN files /\ ~files[p].isdir
SafePath(p) == Name(p.dir, p.stem \o p.suffix, ".safe")
HasFailureMarker(r) == StartsWith(Lower(FirstWord(r)), <<"f","a","i","l","e","d">>)
NotFoundClass(r) == r.tmpl \in {"not_found", "append_disallowed"} /\ HasFailureMarker(r)

\* WRITE without overwrite permission, with content, on an existing file.
C12_Case ==
    /\ CalledWith("WRITE") /\ ~last.call.allow_overwrite /\ last.call.content # None
    /\ NamesAPath /\ ExistingFile(last.pre_fs, TargetPath)
C12_Redirected ==
    /\ ~last.raised
    /\ TargetPath \in DOMAIN fs /\ fs[TargetPath] = last.pre_fs[TargetPath]
    /\ SafePath(TargetPath) \in DOMAIN fs
    /\ fs[SafePath(TargetPath)].content = Val(last.call.content)
    /\ last.result = Msg("collision", "", SafePath(TargetPath), "")
\* The ".safe" path can be written: the directory is writable and the path is free
\* or holds a writable file.
C12_SafePathWritable ==
    /\ cwdWritable
    /\ \/ SafePath(TargetPath) \notin DOMAIN last.pre_fs
       \/ /\ ~last.pre_fs[SafePath(TargetPath)].isdir
          /\ last.pre_fs[SafePath(TargetPath)].writable

\* C12 (as claimed): with allow_overwrite false and content present, WRITE on an
\* existing file leaves it unchanged, writes exactly the content to the path with
\* ".safe" appended and returns the "Collision avoided" result.
C12_CollisionWritesSafeCopy == C12_Case => C12_Redirected

\* C12 (amended): the same when the ".safe" path can be written; when it cannot
\* (directory not writable, or a read-only file at the ".safe" path) the call
\* returns a result carrying the failure marker and changes no file.
C12_CollisionWritesSafeCopyWhenPermitted ==
    /\ (C12_Case /\ C12_SafePathWritable) => C12_Redirected
    /\ (C12_Case /\ ~C12_SafePathWritable) =>
            (~last.raised /\ fs = last.pre_fs /\ HasFailureMarker(last.result))

C12_Witness ==
    /\ C12_Case /\ C12_SafePathWritable /\ C12_Redirected
    /\ fs[SafePath(TargetPath)].content # fs[TargetPath].content

C12_WitnessDenied ==
    /\ C12_Case /\ ~cwdWritable /\ last.result.tmpl = "no_dir_write_perm"

\* C13: with allow_overwrite false, WRITE never replaces the content of a file that
\* existed before the call, whichever file is named and whatever calls came before.
C13_WriteNeverReplacesExistingContent ==
    (CalledWith("WRITE") /\ ~last.call.allow_overwrite /\ ~last.raised)
    => \A q \in DOMAIN last.pre_fs :
            q \in DOMAIN fs /\ fs[q].content = last.pre_fs[q].content

\* C14: APPEND with append_if_missing false on a path that does not exist leaves the
\* files unchanged and returns a NotFound-class result carrying the failure marker,
\* for every content argument.
C14_AppendToMissingIsNotFound ==
    (CalledWith("APPEND") /\ ~last.call.append_if_missing /\ NamesAPath
        /\ TargetPath \notin DOMAIN last.pre_fs)
    => (~last.raised /\ fs = last.pre_fs /\ NotFoundClass(last.result))

\* DELETE on a path that does not exist / on an existing, writable file.
C15_Missing == CalledWith("DELETE") /\ NamesAPath /\ TargetPath \notin DOMAIN last.pre_fs
C15_Deletable ==
    /\ CalledWith("DELETE") /\ NamesAPath
    /\ ExistingFile(last.pre_fs, TargetPath) /\ last.pre_fs[TargetPath].writable
C15_ReadAfterwards == execute(fs, cwdWritable, Some("READ"), last.call.filename, None, FALSE, FALSE)
C15_Gone ==
    /\ ~last.raised
    /\ TargetPath \notin DOMAIN fs
    /\ \A q \in DOMAIN last.pre_fs \ {TargetPath} : q \in DOMAIN fs /\ fs[q] = last.pre_fs[q]
    /\ ~C15_ReadAfterwards.raised /\ NotFoundClass(C15_ReadAfterwards.result)

\* C15 (as claimed): DELETE on a path that does not exist leaves the files unchanged
\* and returns a NotFound-class failure; on an existing, writable file it removes
\* the file, and a READ of the same name afterwards returns a NotFound-class failure.
C15_DeleteRemovesOrNotFound ==
    /\ C15_Missing => (~last.raised /\ fs = last.pre_fs /\ NotFoundClass(last.result))
    /\ C15_Deletable => C15_Gone

\* C15 (amended): the removal holds when the directory of the file is writable; in
\* a directory that is not writable the call returns a result carrying the failure
\* marker and the file stays.
C15_DeleteRemovesWhenDirectoryWritable ==
    /\ C15_Missing => (~last.raised /\ fs = last.pre_fs /\ NotFoundClass(last.result))
    /\ (C15_Deletable /\ cwdWritable) => C15_Gone
    /\ (C15_Deletable /\ ~cwdWritable) =>
            (~last.raised /\ fs = last.pre_fs /\ HasFailureMarker(last.result))

C15_Witness ==
    /\ C15_Deletable /\ cwdWritable /\ C15_Gone
    /\ last.result = Msg("deleted", "", TargetPath, "")

C15_WitnessMissing == C15_Missing /\ last.result.tmpl = "not_found"

\* ------------------------------------------------------------------ properties, continued

\* A SUMMARIZE action processed in IDLE with a resolved target.
C16_Case == IdleAction /\ Classification.intent = Some("SUMMARIZE") /\ Resolvable
C16_Target == Resolve(Val(ClaimedFilename))
C16_Readable ==
    /\ ExistingFile(last.pre_fs, C16_Target)
    /\ last.pre_fs[C16_Target].readable
    /\ ~last.pre_fs[C16_Target].nul

\* C16: the summarizer is invoked exactly when the target exists, is readable and
\* has no NUL byte in its first 1024 bytes; when the read fails the executor's
\* failure text is the outcome, and when it succeeds the summarizer's result on the
\* file's text is the outcome, for every file content.
C16_SummarizerInvokedIffReadable ==
    C16_Case =>
       /\ ~last.raised
       /\ last.summarized <=> C16_Readable
       /\ ~C16_Readable =>
            /\ last.outcome # None
            /\ Val(last.outcome).tmpl \in {"not_found", "no_read_perm", "not_summarizable"}
            /\ Val(last.outcome).path = C16_Target
       /\ C16_Readable =>
            /\ last.outcome # None
            /\ Val(last.outcome).tmpl \in {"local_summary", "api_summary", "summary_401"}
            /\ Val(last.outcome).tmpl = "local_summary" =>
                    Val(last.outcome).body = last.pre_fs[C16_Target].content

\* The result templates of the failure kinds: InvalidFilename, NotFound,
\* PermissionDenied, GenericIOFailure, UnsupportedIntent.
ExecutorFailures ==
    {"invalid_filename", "not_found", "append_disallowed", "no_read_perm", "no_write_perm",
     "no_dir_write_perm", "write_failed", "read_failed", "append_failed", "delete_failed",
     "summary_read_failed", "not_summarizable", "unknown_intent"}

\* C17: every failing result of the executor, the one for an unrecognized intent
\* included, carries the failure marker the pipeline tests for, and an action
\* executed directly that ends with one leaves last_filename and last_content alone.
C17_EveryFailureCarriesMarker ==
    (Processed /\ ~last.raised /\ last.calls # <<>>
        /\ last.calls[1].intent # Some("SUMMARIZE")
        /\ last.outcome # None /\ Val(last.outcome).tmpl \in ExecutorFailures)
    => /\ HasFailureMarker(Val(last.outcome))
       /\ WasIdle => /\ mem.last_filename = last.pre_mem.last_filename
                     /\ mem.last_content = last.pre_mem.last_content

\* C18: execute returns a result text and raises nothing, for every intent,
\* filename, content and condition of the files.
C18_ExecuteNeverRaises == last.called => ~last.raised

\* A classifier response that cannot be decoded into a classification record.
C19_Undecodable ==
    /\ WasIdle
    /\ \/ last.response \in {"not_json", "json_non_object"}
       \/ /\ last.response = "json_object" /\ last.nlu # None
          /\ Classification.type \notin {Some("ANSWER"), Some("ACTION")}

\* C19: for every classifier response that cannot be decoded (not JSON, JSON that is
\* no object, an object whose type is neither ANSWER nor ACTION) process_command
\* returns the "could not understand" answer, records a turn and raises nothing.
C19_UndecodableClassificationIsAnswered ==
    C19_Undecodable
    => /\ ~last.raised
       /\ last.outcome = Some(Msg("not_understood", "", EmptyName, ""))
       /\ last.recorded = 1
       /\ Len(mem.turns) = Len(last.pre_mem.turns) + 1
       /\ last.calls = <<>>

\* An affirmative reply to a confirmation prompt.
C20_Case == WasPending /\ ReplyText \in YesWords
C20_MarkerRequested ==
    \/ Contains(ReplyText, <<"c","t","x">>)
    \/ Contains(ReplyText, <<"c","o","n","t","e","x","t">>)
    \/ last.pre_mem.pending_include_ctx = Some(TRUE)
C20_HintExists == last.pre_mem.turns # <<>>
C20_WithMarker(f) == Name(f.dir, f.stem \o "-ctx", f.suffix)

\* C20: on an affirmative reply the executor is invoked once, with the pending
\* filename carrying "-ctx" before its extension exactly when the marker was
\* requested (by the reply or by the stored pending_include_ctx) and a context hint
\* exists, and with the pending filename as prompted in every other case.
C20_MarkerInsertedExactlyWhenRequested ==
    C20_Case
    => /\ Len(last.calls) = 1
       /\ last.calls[1].intent = last.pre_mem.pending_intent
       /\ last.calls[1].filename =
            Some(IF C20_MarkerRequested /\ C20_HintExists
                 THEN C20_WithMarker(Val(last.pre_mem.pending_filename))
                 ELSE Val(last.pre_mem.pending_filename))

C20_Witness ==
    /\ C20_Case /\ C20_MarkerRequested /\ C20_HintExists
    /\ last.calls[1].filename = Some(Name("", "a-ctx", ".txt"))
    /\ ~last.raised /\ fs # last.pre_fs

C20_WitnessUnchanged ==
    /\ C20_Case /\ ~C20_MarkerRequested
    /\ last.calls[1].filename = last.pre_mem.pending_filename
    /\ ~last.raised /\ fs # last.pre_fs

\* A confirmation is pending with the stored pending_include_ctx false.
C21_Case ==
    /\ session = "running" /\ Pending(mem)
    /\ mem.pending_include_ctx = Some(FALSE)
C21_Mentions(c) ==
    \/ Contains(Lower(Strip(c)), <<"c","t","x">>)
    \/ Contains(Lower(Strip(c)), <<"c","o","n","t","e","x","t">>)
C21_MoreReplies ==
    {<<"c","t","x">>, <<"c","o","n","t","e","x","t">>,
     <<"y"," ","c","t","x">>, <<"o","k"," ","c","t","x">>,
     <<"Y","e","s",","," ","c","o","n","t","e","x","t">>,
     <<"c","o","n","f","i","r","m"," ","c","o","n","t","e","x","t">>,
     <<"c","t","x"," ","y","e","s">>}
C21_CtxReplies == {c \in ReplyTexts \cup C21_MoreReplies : C21_Mentions(c)}

\* C21: while a confirmation is pending with the stored pending_include_ctx false,
\* some reply mentioning "ctx" or "context" is accepted as affirmative and executes
\* the pending action on the filename with the context marker inserted.
C21_ReplyCanConfirmAndRequestMarker ==
    C21_Case =>
        \E c \in C21_CtxReplies :
            LET r == process_command(mem, fs, cwdWritable, c, NoResponse, "no_key")
            IN /\ r.branch = "yes"
               /\ Len(r.calls) = 1
               /\ r.calls[1].intent = mem.pending_intent
               /\ r.calls[1].filename = Some(C20_WithMarker(Val(mem.pending_filename)))

\* What the first command of a session does when a confirmation was left pending.
C22_Affirmative(c) == Lower(Strip(c)) \in YesWords
C22_FirstCommandIsTheReply ==
    /\ ~last'.classified
    /\ C22_Affirmative(last'.command) =>
            /\ Len(last'.calls) = 1
            /\ last'.calls[1].intent = mem.pending_intent
            /\ last'.calls[1].content = mem.pending_content
            /\ last'.calls[1].filename \in
                    {mem.pending_filename, Some(C20_WithMarker(Val(mem.pending_filename)))}
    /\ ~C22_Affirmative(last'.command) =>
            /\ last'.calls = <<>>
            /\ fs' = fs
            /\ NoPendingField(mem')
            /\ last'.outcome \in {Some(Msg("cancelled", "", EmptyName, "")),
                                  Some(Msg("reissue", "", EmptyName, ""))}

\* C22: the input "exit" ends the loop and leaves the persisted memory, the pending
\* group included, and the files as they were; when a confirmation is pending at
\* the start of the next session, the first command is taken as the reply to it
\* (an affirmative one invokes the executor with the pending action, any other
\* clears the pending group without executing) and is never sent to the classifier.
C22_PendingOutlivesSession ==
    [][/\ (session # "exited" /\ session' = "exited") => (mem' = mem /\ fs' = fs)
       /\ (session = "resumed" /\ Pending(mem) /\ ncmds' = ncmds + 1)
            => C22_FirstCommandIsTheReply]_vars

C22_Witness ==
    /\ last.resumed /\ WasPending
    /\ last.pre_mem.pending_intent = Some("DELETE")
    /\ last.branch = "yes" /\ ~last.classified
    /\ Resolve(Val(last.pre_mem.pending_filename)) \in DOMAIN last.pre_fs
    /\ Resolve(Val(last.pre_mem.pending_filename)) \notin DOMAIN fs

C22_WitnessCancelled ==
    /\ last.resumed /\ WasPending /\ last.command = CmdTask
    /\ last.calls = <<>> /\ NoPendingField(mem) /\ ~last.classified

====
